---- MODULE Spec2Model ----
(***************************************************************************)
(* Location watcher, proximity checker and notifier of                     *)
(* src/src/services/geolocation.ts.                                        *)
(*                                                                         *)
(* The file holds two copies of the module: lines 1-238, whose             *)
(* startLocationTracking is async and awaits checkGeolocationAvailability  *)
(* and Notification.requestPermission, and lines 239-436, whose            *)
(* startLocationTracking is synchronous.  `variant` selects the copy.      *)
(*                                                                         *)
(* Units: coordinates are integers in 1e-5 degree, distances are integers  *)
(* in millimetres, timestamps are integers in milliseconds.                *)
(***************************************************************************)
EXTENDS Integers, Sequences, FiniteSets

\* ------------------------------------------------------------------ bounds
\* start() calls that may be suspended at an await at the same time
MaxStarts == 2
\* watchPosition subscriptions the platform hands out in one run
MaxWatches == 2
\* proximity checks that may wait for the store at the same time
MaxInFlight == 2
\* rows a table or a list of main.js may hold
MaxRows == 1
\* requests to the remote tables that may be unanswered at the same time
MaxRequests == 2
\* position updates delivered to AIService in one run
MaxDeliveries == 130

\* ------------------------------------------------------- program constants
\* geolocation.ts:11 / :249, in millimetres
PROXIMITY_THRESHOLD == 500000
\* geolocation.ts:183 / :385, "> 10" metres, in millimetres
SIGNIFICANT_DISTANCE == 10000
\* geolocation.ts:184 / :386, "> 60000" milliseconds
SIGNIFICANT_INTERVAL == 60000
\* geolocation.ts:26 / :264, R * PI / 180 * 1e-5: millimetres of arc per
\* coordinate unit, times 100
MM_PER_UNIT_X100 == 111195

\* part_000:110, "this.locationHistory.length > 100"
HISTORY_LIMIT == 100
\* null of main.js `currentUser`; the one account of the model
NULL_USER == 0
User == 1

\* ------------------------------------------------------------- input sets
\* rows of the remote "tasks" table: coordinate and text.  Rows 1-5 lie at
\* the equator; row 6 is the task of the Westminster walk, (51.5008, -0.1247)
TaskRow(t) ==
  CASE t = 1 -> [latitude |-> 0, longitude |-> 90,  task |-> "buy milk",    completed |-> FALSE]
    [] t = 2 -> [latitude |-> 0, longitude |-> 449, task |-> "post letter", completed |-> FALSE]
    [] t = 3 -> [latitude |-> 0, longitude |-> 451, task |-> "gym",         completed |-> FALSE]
    [] t = 4 -> [latitude |-> 0, longitude |-> 3,   task |-> "call bank",   completed |-> TRUE]
    [] t = 5 -> [latitude |-> 6, longitude |-> 8,   task |-> "buy milk",    completed |-> FALSE]
    [] t = 6 -> [latitude |-> 5150080, longitude |-> -12470, task |-> "return book", completed |-> FALSE]
Texts == { TaskRow(t).task : t \in 1..6 }

\* null of `watchId: number | null`; the platform's ids start at 1
NULL_ID == 0
\* null of `lastLocation: Location | null`
NULL_LOCATION == [latitude |-> 0, longitude |-> 0, timestamp |-> -1]
Location(lat, lon, ts) == [latitude |-> lat, longitude |-> lon, timestamp |-> ts]

\* an entry of main.js `tasks` or a row of the remote table; rows of the
\* store have positive ids, tasks made in memory (id: Date.now()) negative ones
Task(id, completed) == [id |-> id, completed |-> completed]
Bookmark(id) == [id |-> id]
\* a request to a remote table; `after` names what the caller awaits it for
Request(kind, table, id, value, after) ==
  [kind |-> kind, table |-> table, id |-> id, value |-> value, after |-> after]
NoAppEvent == [op |-> "none", request |-> "none"]
AppDone(op, request) == [op |-> op, request |-> request]

VARIABLES
  place,            \* where the run takes place: "equator" or "westminster"
  variant,          \* "async" (lines 1-238) or "sync" (lines 239-436)
  hasGeolocation,   \* navigator.geolocation is present
  secureContext,    \* protocol is https: or hostname is localhost
  permissionState,  \* "absent": no navigator.permissions; else the query's state
  notification,     \* "unsupported": no window.Notification; else Notification.permission
  watchId,          \* module variable watchId
  lastLocation,     \* module variable lastLocation
  liveWatches,      \* platform: ids of the subscriptions that are registered
  nextWatchId,      \* platform: the id the next watchPosition returns
  starts,           \* async startLocationTracking calls, by call slot
  promptPending,    \* sync variant: an un-awaited requestPermission is open
  checks,           \* checkNearbyTasks calls waiting for the store, oldest first
  notifications,    \* notifications shown so far: text -> how many
  oneShot,          \* the getCurrentLocationPromise promise
  now,              \* timestamp of the newest position the platform produced
  stopReturned,     \* stopLocationTracking returned and start was not called since
  measured,         \* results of the last calculateDistance probe
  restarted,        \* a start called after stop returned: -c while call c is
                    \* suspended, then the id of its subscription until that
                    \* delivers its first sample; 0 when there is none.
                    \* Recorded only in runs that begin with it at 0
  event,            \* what the last step did
  session,          \* supabase.auth holds a session
  screen,           \* the section on display: "auth" or "app"
  currentUser,      \* main.js variable currentUser
  isGuestMode,      \* main.js variable isGuestMode
  tasks,            \* main.js variable tasks, newest first
  bookmarks,        \* main.js variable bookmarks, newest first
  remoteTasks,      \* rows of the user in the remote table "tasks"
  remoteBookmarks,  \* rows of the user in "location_bookmarks"
  inFlight,         \* requests sent to the remote tables and not yet answered
  signingOut,       \* the promise of supabase.auth.signOut() is unsettled
  signedOut,        \* the SIGNED_OUT handler ran and nobody came in since
  appEvent,         \* what the last step of main.js did
  locationHistory,  \* AIService.locationHistory
  historyClock      \* position updates delivered to AIService so far

vars == << place, variant, hasGeolocation, secureContext, permissionState, notification,
           watchId, lastLocation, liveWatches, nextWatchId, starts, promptPending,
           checks, notifications, oneShot, now, stopReturned, measured,
           restarted, event, session, screen, currentUser, isGuestMode, tasks,
           bookmarks, remoteTasks, remoteBookmarks, inFlight, signingOut,
           signedOut, appEvent, locationHistory, historyClock >>

\* the platform and the probe: what no handler writes
host == << place, variant, hasGeolocation, secureContext, permissionState,
          measured >>
\* the state of main.js and of AIService
app == << session, screen, currentUser, isGuestMode, tasks, bookmarks,
         remoteTasks, remoteBookmarks, inFlight, signingOut, signedOut,
         appEvent, locationHistory, historyClock >>
\* what no handler of the geolocation module writes
env == << host, app >>

\* coordinates the platform reports, <<latitude, longitude>>; at Westminster
\* the device rests at (51.5007, -0.1246)
Coords ==
  IF place = "westminster" THEN { <<5150070, -12460>> }
  ELSE { <<0, 0>>, <<0, 5>>, <<6, 8>> }
\* timestamps the platform reports
Timestamps ==
  IF place = "westminster" THEN { 0, 500, 61000 } ELSE { 0, 1000, 61000 }
\* the rows the "tasks" table holds
TaskIds == IF place = "westminster" THEN { 6 } ELSE 1..5

CallIds == 1..MaxStarts
\* the outcome of the handler that ran last: what it returned or threw, and
\* the tasks it handed to notifyNearbyTasks
Ev(op, result, handed, thrown) ==
  [op |-> op, result |-> result, handed |-> handed, thrown |-> thrown]
NoEvent == Ev("other", "none", {}, FALSE)
IdleCall == [pc |-> "idle", avail |-> "none"]
\* the value of `restarted` in runs that do not record it
Untracked == -(MaxStarts + 1)
Track(v) == IF restarted = Untracked THEN restarted ELSE v


\* --------------------------------------------------------- pure functions
Abs(x) == IF x < 0 THEN -x ELSE x

RECURSIVE SqrtBetween(_, _, _)
SqrtBetween(n, lo, hi) ==
  IF lo = hi THEN lo
  ELSE LET mid == (lo + hi + 1) \div 2
       IN IF mid * mid <= n THEN SqrtBetween(n, mid, hi)
          ELSE SqrtBetween(n, lo, mid - 1)
\* Math.sqrt, rounded down; the radicands of this model are below 2^29
Sqrt(n) ==
  SqrtBetween(n, 0,
              IF n < 65536 THEN 255 ELSE IF n < 67108864 THEN 8191 ELSE 23170)

\* Math.cos(phi) in percent, for the two latitude bands of Coords and
\* TaskRow: within 0.01 degree of the equator, and 51.50 to 51.51 degrees
Cos(lat) == IF lat \in 5150000..5151000 THEN 62 ELSE 100

\* Math.cos(phi1) * Math.cos(phi2) in percent (line 33 / 271)
CosCos(lat1, lat2) == (Cos(lat1) * Cos(lat2)) \div 100

\* calculateDistance: Haversine.  With dphi, dlambda below 0.01 degree,
\* sin(x/2) = x/2 and 2*atan2(sqrt(a), sqrt(1-a)) = 2*sqrt(a) to the same
\* precision, so R*c = R * sqrt(dphi^2 + cos(phi1)cos(phi2) dlambda^2).
calculateDistance(lat1, lon1, lat2, lon2) ==
  LET dphi    == lat2 - lat1
      dlambda == lon2 - lon1
      a4x100  == 100 * dphi * dphi + CosCos(lat1, lat2) * dlambda * dlambda
      c10     == Sqrt(a4x100)
  IN (MM_PER_UNIT_X100 * c10) \div 1000


\* calculateDistance tabulated once for the coordinates of Coords and TaskRow
EquatorPoints ==
  { <<0, 0>>, <<0, 5>>, <<6, 8>>, <<0, 90>>, <<0, 449>>, <<0, 451>>, <<0, 3>> }
WestminsterPoints == { <<5150070, -12460>>, <<5150080, -12470>> }
DistanceMemo ==
  [ pq \in (EquatorPoints \X EquatorPoints)
            \cup (WestminsterPoints \X WestminsterPoints) |->
      calculateDistance(pq[1][1], pq[1][2], pq[2][1], pq[2][2]) ]

\* calculateDistance applied to two records with latitude and longitude
Distance(l1, l2) ==
  LET pq == << <<l1.latitude, l1.longitude>>, <<l2.latitude, l2.longitude>> >>
  IN IF pq \in DOMAIN DistanceMemo THEN DistanceMemo[pq]
     ELSE calculateDistance(l1.latitude, l1.longitude, l2.latitude, l2.longitude)

\* ---- calculateDistance between points far apart, in whole degrees.
\* Numbers are binary fixed point, One standing for 1.0, and every
\* multiplication rounds to nearest, as each double operation does.
One == 16384
\* the result of Math.sqrt of a negative number and of all arithmetic on it
NaN == -1
RoundDiv(n, d) == (2 * n + d) \div (2 * d)
Mul(x, y) == RoundDiv(x * y, One)
\* Math.sin and Math.cos of 0, 4, 8, 45 and 90 degrees, rounded to nearest
SinDeg(d) ==
  CASE d = 0 -> 0 [] d = 4 -> 1143 [] d = 8 -> 2280 [] d = 45 -> 11585
    [] d = 90 -> 16384
CosDeg(d) ==
  CASE d = 0 -> 16384 [] d = 4 -> 16344 [] d = 8 -> 16225 [] d = 45 -> 11585
    [] d = 90 -> 0
\* Math.atan of lo/hi in milliradians, 0 <= lo <= hi: t*(pi/4 + 0.273*(1-t))
AtanRatio(lo, hi) ==
  LET t == (lo * 1024) \div hi
  IN (t * (785 * 1024 + 273 * (1024 - t))) \div (1024 * 1024)
\* Math.atan2(y, x) in milliradians for y, x >= 0
Atan2(y, x) == IF y <= x THEN AtanRatio(y, x) ELSE 1571 - AtanRatio(x, y)

\* calculateDistance (lines 25-38 / 263-276) in full, result in kilometres:
\* sin(-x) = -sin(x) and cos(-x) = cos(x) exactly, so the squares and the
\* cosines are taken of the absolute angles; a above 1.0 makes
\* Math.sqrt(1 - a) NaN, and with it atan2 and the result
calculateDistanceGlobe(lat1, lon1, lat2, lon2) ==
  LET sphi    == SinDeg(Abs(lat2 - lat1) \div 2)
      slambda == SinDeg(Abs(lon2 - lon1) \div 2)
      a       == Mul(sphi, sphi)
                 + Mul(Mul(Mul(CosDeg(Abs(lat1)), CosDeg(Abs(lat2))), slambda), slambda)
  IN IF One - a < 0 THEN NaN
     ELSE (6371 * 2 * Atan2(Sqrt(a * One), Sqrt((One - a) * One))) \div 1000

\* IsSignificant with a 5 m distance threshold
IsSignificant_Dist5(last, newLocation) ==
  \/ last = NULL_LOCATION
  \/ Distance(last, newLocation) > 5000
  \/ newLocation.timestamp - last.timestamp > SIGNIFICANT_INTERVAL

\* IsSignificant with the distance and the time condition joined by &&
IsSignificant_And(last, newLocation) ==
  \/ last = NULL_LOCATION
  \/ /\ Distance(last, newLocation) > SIGNIFICANT_DISTANCE
     /\ newLocation.timestamp - last.timestamp > SIGNIFICANT_INTERVAL

\* IsSignificant with a time threshold of 100 ms
IsSignificant_Interval100(last, newLocation) ==
  \/ last = NULL_LOCATION
  \/ Distance(last, newLocation) > SIGNIFICANT_DISTANCE
  \/ newLocation.timestamp - last.timestamp > 100

\* the condition of the watcher's callback, geolocation.ts:177-185 / :379-387
IsSignificant(last, newLocation) ==
  \/ last = NULL_LOCATION
  \/ Distance(last, newLocation) > SIGNIFICANT_DISTANCE
  \/ newLocation.timestamp - last.timestamp > SIGNIFICANT_INTERVAL

\* FetchOpenTasks without .eq('completed', false)
FetchOpenTasks_NoFilter == TaskIds

\* supabase.from('tasks').select('*').eq('completed', false)
FetchOpenTasks == { t \in TaskIds : TaskRow(t).completed = FALSE }

\* tasks?.filter(task => calculateDistance(location, task) <= PROXIMITY_THRESHOLD)
NearbyTasks(rows, location) ==
  { t \in rows : Distance(location, TaskRow(t)) <= PROXIMITY_THRESHOLD }

\* NotifyNearbyTasks that tests permission !== 'denied'
NotifyNearbyTasks_NotDenied(rows, perm, x) ==
  IF perm = "unsupported" THEN 0
  ELSE Cardinality({ t \in rows : perm # "denied" /\ TaskRow(t).task = x })

\* NotifyNearbyTasks that skips a text it has shown before
NotifyNearbyTasks_Dedup(rows, perm, x) ==
  IF perm = "unsupported" \/ notifications[x] > 0 THEN 0
  ELSE Cardinality({ t \in rows : perm = "granted" /\ TaskRow(t).task = x })

\* notifyNearbyTasks (lines 142-153 / 339-350): how many notifications with
\* text x the call shows
NotifyNearbyTasks(rows, perm, x) ==
  IF perm = "unsupported" THEN 0
  ELSE Cardinality({ t \in rows : perm = "granted" /\ TaskRow(t).task = x })

\* CheckGeolocationAvailability without the test of navigator.geolocation
CheckGeolocationAvailability_NoGeoTest(geo, secure, perm) ==
  IF ~secure THEN "insecure"
  ELSE IF perm # "absent" THEN "query"
  ELSE "ok"

\* checkGeolocationAvailability up to its first await (lines 43-57): the error
\* it throws, "query" when it suspends at navigator.permissions.query, or "ok"
CheckGeolocationAvailability(geo, secure, perm) ==
  IF ~geo THEN "unsupported"
  ELSE IF ~secure THEN "insecure"
  ELSE IF perm # "absent" THEN "query"
  ELSE "ok"

\* checkGeolocationAvailability after the query settled (lines 56-63): the
\* throw of line 59 is inside the try, so the catch of line 61 takes it
PermissionQueryResult(state) ==
  LET thrownInTry == IF state = "denied" THEN "blocked" ELSE "none"
      afterCatch  == "ok"
  IN IF thrownInTry = "none" THEN "ok" ELSE afterCatch

\* the checks of the synchronous startLocationTracking (lines 356-368)
SyncPreconditions(geo, secure) ==
  IF ~geo THEN "unsupported"
  ELSE IF ~secure THEN "insecure"
  ELSE "ok"

\* OneShotPreconditions without the HTTPS test
OneShotPreconditions_NoHttps(geo, secure) ==
  IF ~geo THEN "unsupported" ELSE "ok"

\* the checks of getCurrentLocationPromise (lines 215-224 / 413-422)
OneShotPreconditions(geo, secure) ==
  IF ~geo THEN "unsupported"
  ELSE IF ~secure THEN "insecure"
  ELSE "ok"

\* what Notification.requestPermission() can settle with
PermissionAnswers(perm) ==
  IF perm = "default" THEN { "default", "granted", "denied" } ELSE { perm }

InFlight == { c \in CallIds : starts[c].pc # "idle" }

\* ------------------------------------------------------------------- Init
\* points a probe of calculateDistance takes: the coordinates of the
\* equatorial runs, and points of the globe in whole degrees
NearPoints == { <<0, 0>>, <<0, 5>>, <<6, 8>>, <<0, 449>>, <<0, 451>> }
GlobePoints == { <<0, 0>>, <<0, 90>>, <<8, 0>>, <<8, 90>>, <<-8, 0>>, <<-8, 180>> }
NoProbe == [a |-> <<0, 0>>, b |-> <<0, 0>>, ab |-> 0, ba |-> 0, aa |-> 0]

\* main.js lines 33-47 and part_000 lines 29-31: nobody is signed in, the
\* lists are empty; the account owns one task and one bookmark in the store
InitApp ==
  /\ session = FALSE
  /\ screen = "auth"
  /\ currentUser = NULL_USER
  /\ isGuestMode = FALSE
  /\ tasks = << >>
  /\ bookmarks = << >>
  /\ remoteTasks = << Task(1, FALSE) >>
  /\ remoteBookmarks = << Bookmark(1) >>
  /\ inFlight = {}
  /\ signingOut = FALSE
  /\ signedOut = "no"
  /\ appEvent = NoAppEvent
  /\ locationHistory = << >>
  /\ historyClock = 0

InitAt(where) ==
  /\ place = where
  /\ variant \in { "async", "sync" }
  /\ hasGeolocation \in BOOLEAN
  /\ secureContext \in BOOLEAN
  /\ permissionState \in { "absent", "granted", "denied" }
  \* the synchronous copy never consults navigator.permissions
  /\ variant = "sync" => permissionState = "absent"
  /\ notification \in { "unsupported", "default", "granted", "denied" }
  /\ watchId = NULL_ID
  /\ lastLocation = NULL_LOCATION
  /\ liveWatches = {}
  /\ nextWatchId = 1
  /\ starts = [c \in CallIds |-> IdleCall]
  /\ promptPending = FALSE
  /\ checks = << >>
  /\ notifications = [x \in Texts |-> 0]
  /\ oneShot = [state |-> "none", error |-> "none"]
  /\ now = -1
  /\ stopReturned = FALSE
  /\ measured = NoProbe
  /\ event = NoEvent
  /\ InitApp

Init == InitAt("equator") /\ restarted = Untracked

\* the equatorial runs with starts after a stop recorded
InitRestart == InitAt("equator") /\ restarted = 0

\* the Westminster walk: one open task 13 m from where the device rests
InitScenario == InitAt("westminster") /\ restarted = Untracked

\* ---------------------------------------------------------------- actions
\* navigator.geolocation.watchPosition(...) and the assignment to watchId
\* (lines 168-192 / 370-394)
WatchPosition ==
  /\ watchId' = nextWatchId
  /\ liveWatches' = liveWatches \cup { nextWatchId }
  /\ nextWatchId' = nextWatchId + 1

NoWatch == UNCHANGED << watchId, liveWatches, nextWatchId >>

Done(op, result) ==
  Ev(op, result, {}, result # "ok")

\* a caller invokes the async startLocationTracking (line 158): it runs to
\* `await checkGeolocationAvailability()` (line 161)
StartAsync(c) ==
  /\ variant = "async"
  /\ starts[c].pc = "idle"
  /\ \A d \in CallIds : d < c => starts[d].pc # "idle"
  /\ (nextWatchId - 1) + Cardinality(InFlight) < MaxWatches
  /\ starts' = [starts EXCEPT ![c] =
       [pc |-> "awaitAvailability",
        avail |-> CheckGeolocationAvailability(hasGeolocation, secureContext,
                                               permissionState)]]
  /\ stopReturned' = FALSE
  /\ event' = NoEvent
  /\ NoWatch
  /\ UNCHANGED << env, notification, lastLocation, promptPending, checks,
                  notifications, oneShot, now >>
  /\ restarted' = Track(IF stopReturned THEN -c ELSE restarted)

\* navigator.permissions.query settles (lines 57-63)
PermissionQuerySettles(c) ==
  /\ starts[c].pc = "awaitAvailability"
  /\ starts[c].avail = "query"
  /\ starts' = [starts EXCEPT ![c].avail = PermissionQueryResult(permissionState)]
  /\ event' = NoEvent
  /\ NoWatch
  /\ UNCHANGED << env, restarted, notification, lastLocation, promptPending, checks,
                  notifications, oneShot, now, stopReturned >>

\* the async startLocationTracking resumes after line 161: a rejection goes
\* to the catch of line 193 and is rethrown; otherwise lines 164-168
StartResumes(c) ==
  /\ starts[c].pc = "awaitAvailability"
  /\ starts[c].avail \in { "unsupported", "insecure", "blocked", "ok" }
  /\ IF starts[c].avail # "ok"
       THEN /\ starts' = [starts EXCEPT ![c] = IdleCall]
            /\ event' = Done("startDone", starts[c].avail)
            /\ NoWatch
       ELSE IF notification = "default"
         THEN /\ starts' = [starts EXCEPT ![c] =
                   [pc |-> "awaitNotification", avail |-> "ok"]]
              /\ event' = NoEvent
              /\ NoWatch
         ELSE /\ starts' = [starts EXCEPT ![c] = IdleCall]
              /\ event' = Done("startDone", "ok")
              /\ WatchPosition
  /\ UNCHANGED << env, notification, lastLocation, promptPending, checks,
                  notifications, oneShot, now, stopReturned >>
  /\ restarted' = Track(IF restarted # -c THEN restarted
                  ELSE IF nextWatchId' # nextWatchId THEN nextWatchId
                  ELSE IF starts'[c].pc = "idle" THEN 0 ELSE restarted)

\* Notification.requestPermission() settles and the async
\* startLocationTracking resumes after line 165 with watchPosition
NotificationPermissionSettles(c, answer) ==
  /\ starts[c].pc = "awaitNotification"
  /\ answer \in PermissionAnswers(notification)
  /\ notification' = answer
  /\ starts' = [starts EXCEPT ![c] = IdleCall]
  /\ event' = Done("startDone", "ok")
  /\ WatchPosition
  /\ UNCHANGED << env, lastLocation, promptPending, checks,
                  notifications, oneShot, now, stopReturned >>
  /\ restarted' = Track(IF restarted # -c THEN restarted
                  ELSE IF nextWatchId' # nextWatchId THEN nextWatchId
                  ELSE IF starts'[c].pc = "idle" THEN 0 ELSE restarted)

\* the body of the synchronous startLocationTracking (lines 355-395)
StartSyncCall ==
  /\ variant = "sync"
  /\ nextWatchId - 1 < MaxWatches
  /\ LET result == SyncPreconditions(hasGeolocation, secureContext)
     IN /\ promptPending' = IF hasGeolocation /\ notification = "default"
                              THEN TRUE ELSE promptPending
        /\ event' = Done("startDone", result)
        /\ IF result = "ok" THEN WatchPosition ELSE NoWatch
  /\ stopReturned' = FALSE
  /\ UNCHANGED << host, notification, lastLocation, starts, checks,
                  notifications, oneShot, now >>
  /\ restarted' = Track(IF stopReturned /\ nextWatchId' # nextWatchId
                          THEN nextWatchId ELSE restarted)

\* a caller invokes the synchronous startLocationTracking
StartSync == StartSyncCall /\ UNCHANGED app

\* the user answers the prompt of the un-awaited requestPermission (line 362)
PromptAnswered(answer) ==
  /\ promptPending
  /\ answer \in PermissionAnswers(notification)
  /\ notification' = answer
  /\ promptPending' = FALSE
  /\ event' = NoEvent
  /\ NoWatch
  /\ UNCHANGED << env, restarted, lastLocation, starts, checks,
                  notifications, oneShot, now, stopReturned >>

\* StopLocationTracking that leaves lastLocation as it is
StopLocationTracking_KeepsLast ==
  /\ IF watchId # NULL_ID
       THEN /\ liveWatches' = liveWatches \ { watchId }
            /\ watchId' = NULL_ID
       ELSE UNCHANGED << liveWatches, watchId >>
  /\ stopReturned' = TRUE
  /\ event' = Done("stopDone", "ok")
  /\ UNCHANGED << host, notification, nextWatchId, starts, promptPending, checks,
                  notifications, oneShot, now, lastLocation >>
  /\ restarted' = Track(IF watchId # NULL_ID /\ restarted = watchId THEN 0 ELSE restarted)

\* StopLocationTracking that also drops the checks that wait for the store
StopLocationTracking_CancelsChecks ==
  /\ IF watchId # NULL_ID
       THEN /\ liveWatches' = liveWatches \ { watchId }
            /\ watchId' = NULL_ID
            /\ lastLocation' = NULL_LOCATION
       ELSE UNCHANGED << liveWatches, watchId, lastLocation >>
  /\ stopReturned' = TRUE
  /\ checks' = << >>
  /\ event' = Done("stopDone", "ok")
  /\ UNCHANGED << host, notification, nextWatchId, starts, promptPending,
                  notifications, oneShot, now >>
  /\ restarted' = Track(IF watchId # NULL_ID /\ restarted = watchId THEN 0 ELSE restarted)

\* the body of stopLocationTracking (lines 202-208 / 400-406)
StopCall ==
  /\ IF watchId # NULL_ID
       THEN /\ liveWatches' = liveWatches \ { watchId }
            /\ watchId' = NULL_ID
            /\ lastLocation' = NULL_LOCATION
       ELSE UNCHANGED << liveWatches, watchId, lastLocation >>
  /\ stopReturned' = TRUE
  /\ event' = Done("stopDone", "ok")
  /\ UNCHANGED << host, notification, nextWatchId, starts, promptPending, checks,
                  notifications, oneShot, now >>
  /\ restarted' = Track(IF watchId # NULL_ID /\ restarted = watchId THEN 0 ELSE restarted)

\* a caller invokes stopLocationTracking
StopLocationTracking == StopCall /\ UNCHANGED app


\* PositionCallback that remembers every delivered sample in lastLocation
PositionCallback_TracksDelivered(w, coord, ts) ==
  LET newLocation == Location(coord[1], coord[2], ts)
  IN /\ w \in liveWatches
     /\ permissionState # "denied"
     /\ ts > now
     /\ now' = ts
     /\ lastLocation' = newLocation
     /\ IF IsSignificant(lastLocation, newLocation)
          THEN /\ Len(checks) < MaxInFlight
               /\ checks' = Append(checks, newLocation)
          ELSE UNCHANGED checks
     /\ event' = NoEvent
     /\ NoWatch
     /\ UNCHANGED << env, notification, starts, promptPending,
                     notifications, oneShot, stopReturned >>
     /\ restarted' = Track(IF restarted = w THEN 0 ELSE restarted)

\* the platform delivers a position to the success callback of watch w
\* (lines 169-189 / 371-391)
PositionCallback(w, coord, ts) ==
  LET newLocation == Location(coord[1], coord[2], ts)
  IN /\ w \in liveWatches
     /\ permissionState # "denied"
     /\ ts > now
     /\ now' = ts
     /\ IF IsSignificant(lastLocation, newLocation)
          THEN /\ Len(checks) < MaxInFlight
               /\ lastLocation' = newLocation
               /\ checks' = Append(checks, newLocation)
          ELSE UNCHANGED << lastLocation, checks >>
     /\ event' = NoEvent
     /\ NoWatch
     /\ UNCHANGED << env, notification, starts, promptPending,
                     notifications, oneShot, stopReturned >>
     /\ restarted' = Track(IF restarted = w THEN 0 ELSE restarted)

\* handleGeolocationError (lines 70-107 / 281-304): builds a message and throws
handleGeolocationError(code) ==
  CASE code = 1 -> "permissionDenied"
    [] code = 2 -> "positionUnavailable"
    [] code = 3 -> "timeout"
    [] OTHER    -> "unknown"

\* WatchErrorCallback that gives the subscription up
WatchErrorCallback_Clears(w, code) ==
  /\ w \in liveWatches
  /\ event' = Ev("watchError", handleGeolocationError(code), {}, TRUE)
  /\ liveWatches' = liveWatches \ { w }
  /\ watchId' = IF watchId = w THEN NULL_ID ELSE watchId
  /\ UNCHANGED << env, notification, lastLocation, starts, promptPending, checks,
                  notifications, oneShot, now, stopReturned, nextWatchId >>
  /\ restarted' = Track(IF restarted = w THEN 0 ELSE restarted)

\* the platform reports an error to the error callback of watch w (line 190)
WatchErrorCallback(w, code) ==
  /\ w \in liveWatches
  /\ event' = Ev("watchError", handleGeolocationError(code), {}, TRUE)
  /\ NoWatch
  /\ UNCHANGED << env, restarted, notification, lastLocation, starts, promptPending, checks,
                  notifications, oneShot, now, stopReturned >>

\* CheckFailure without the catch: the error leaves checkNearbyTasks
CheckFailure_Uncaught(outcome) == [result |-> outcome, thrown |-> TRUE]

\* the try/catch of checkNearbyTasks (lines 113, 134-136 / 310, 331-333): a
\* failed query is logged and nothing leaves the function
CheckFailure(outcome) == [result |-> "caught", thrown |-> FALSE]

\* CheckLocation that reads the module variable lastLocation
CheckLocation_Last(i) == lastLocation

\* the parameter `location` of the i-th waiting checkNearbyTasks call
\* (line 112 / 309): the sample the callback passed at line 187 / 389
CheckLocation(i) == checks[i]

RemoveAt(seq, i) == SubSeq(seq, 1, i - 1) \o SubSeq(seq, i + 1, Len(seq))

\* the store answers the query of the i-th waiting checkNearbyTasks and the
\* function runs to its end (lines 114-136 / 311-333).  outcome: "ok" (data),
\* "error" (an error in the result, thrown at line 119), "rejected" (the
\* request promise rejects); both failures reach the catch of line 134
StoreResponds(i, outcome) ==
  LET failed == outcome \in { "error", "rejected" }
  IN /\ i \in 1..Len(checks)
     /\ \E nearby \in { IF failed THEN {} ELSE NearbyTasks(FetchOpenTasks, CheckLocation(i)) } :
          /\ notifications' =
               [x \in Texts |->
                  notifications[x] + NotifyNearbyTasks(nearby, notification, x)]
          /\ event' = IF failed
                         THEN Ev("storeResponse", CheckFailure(outcome).result, {},
                                 CheckFailure(outcome).thrown)
                         ELSE Ev("storeResponse", "ok", nearby, FALSE)
     /\ checks' = RemoveAt(checks, i)
     /\ NoWatch
     /\ UNCHANGED << env, restarted, notification, lastLocation, starts, promptPending,
                     oneShot, now, stopReturned >>

\* getCurrentLocationPromise is called (lines 213-238 / 411-436)
GetCurrentLocationPromise ==
  LET pre == OneShotPreconditions(hasGeolocation, secureContext)
  IN /\ oneShot.state # "pending"
     /\ oneShot' = IF pre = "ok" THEN [state |-> "pending", error |-> "none"]
                                 ELSE [state |-> "rejected", error |-> pre]
     /\ event' = Ev("getCurrentCall", pre, {}, FALSE)
     /\ NoWatch
     /\ UNCHANGED << env, restarted, notification, lastLocation, starts, promptPending, checks,
                     notifications, now, stopReturned >>

\* OneShotPosition that also stores the sample in lastLocation
OneShotPosition_FeedsFilter(coord, ts) ==
  /\ oneShot.state = "pending"
  /\ permissionState # "denied"
  /\ ts >= now
  /\ oneShot' = [state |-> "resolved", error |-> "none"]
  /\ lastLocation' = Location(coord[1], coord[2], ts)
  /\ event' = Ev("getCurrentResolved", "ok", {}, FALSE)
  /\ NoWatch
  /\ UNCHANGED << env, restarted, notification, starts, promptPending, checks,
                  notifications, now, stopReturned >>

\* getCurrentPosition's success callback resolves the promise (lines 227-233)
OneShotPosition(coord, ts) ==
  /\ oneShot.state = "pending"
  /\ permissionState # "denied"
  /\ ts >= now
  /\ oneShot' = [state |-> "resolved", error |-> "none"]
  /\ event' = Ev("getCurrentResolved", "ok", {}, FALSE)
  /\ NoWatch
  /\ UNCHANGED << env, restarted, notification, lastLocation, starts, promptPending, checks,
                  notifications, now, stopReturned >>

\* OneShotError that issues the request again after TIMEOUT
OneShotError_Retries(code) ==
  /\ oneShot.state = "pending"
  /\ oneShot' = IF code = 3 THEN [state |-> "pending", error |-> "none"]
                 ELSE [state |-> "hung", error |-> handleGeolocationError(code)]
  /\ event' = Ev("getCurrentError", "thrown", {}, TRUE)
  /\ NoWatch
  /\ UNCHANGED << env, restarted, notification, lastLocation, starts, promptPending, checks,
                  notifications, now, stopReturned >>

\* getCurrentPosition's error callback is handleGeolocationError (line 234):
\* it throws inside the platform's callback and never calls reject
OneShotError(code) ==
  /\ oneShot.state = "pending"
  /\ oneShot' = [state |-> "hung", error |-> handleGeolocationError(code)]
  /\ event' = Ev("getCurrentError", "thrown", {}, TRUE)
  /\ NoWatch
  /\ UNCHANGED << env, restarted, notification, lastLocation, starts, promptPending, checks,
                  notifications, now, stopReturned >>

\* a caller computes calculateDistance for two points near each other, both
\* ways round, and for the first point with itself
ProbeNear(a, b) ==
  /\ measured' = [a |-> a, b |-> b,
                  ab |-> calculateDistance(a[1], a[2], b[1], b[2]),
                  ba |-> calculateDistance(b[1], b[2], a[1], a[2]),
                  aa |-> calculateDistance(a[1], a[2], a[1], a[2])]
  /\ UNCHANGED << place, variant, hasGeolocation, secureContext, permissionState,
                  notification, watchId, lastLocation, liveWatches, nextWatchId,
                  starts, promptPending, checks, notifications, oneShot, now,
                  stopReturned, restarted, event, app >>

\* the same for two points of the globe
ProbeGlobe(a, b) ==
  /\ measured' = [a |-> a, b |-> b,
                  ab |-> calculateDistanceGlobe(a[1], a[2], b[1], b[2]),
                  ba |-> calculateDistanceGlobe(b[1], b[2], a[1], a[2]),
                  aa |-> calculateDistanceGlobe(a[1], a[2], a[1], a[2])]
  /\ UNCHANGED << place, variant, hasGeolocation, secureContext, permissionState,
                  notification, watchId, lastLocation, liveWatches, nextWatchId,
                  starts, promptPending, checks, notifications, oneShot, now,
                  stopReturned, restarted, event, app >>

\* main.js: session restore at init (lines 615-620) and the SIGNED_IN handler
\* (lines 627-632) end with startLocationTracking(), not awaited
OnSignedIn == ( \E c \in CallIds : StartAsync(c) ) \/ StartSync
\* main.js: the SIGNED_OUT handler (lines 633-637) calls stopLocationTracking()
OnSignedOut == StopLocationTracking

\* ------------------------------------------------------------------ main.js
\* the state of the geolocation module that its handlers write
watcher == << notification, watchId, lastLocation, liveWatches, nextWatchId,
             starts, promptPending, checks, notifications, oneShot, now,
             stopReturned, restarted, event >>
aiService == << locationHistory, historyClock >>

Ids(list) == { list[i].id : i \in DOMAIN list }
\* list.filter(t => t.id !== id)
RemoveId(list, id) == SelectSeq(list, LAMBDA t : t.id # id)
\* the id the store gives the next row
FreshRemoteId(rows) ==
  CHOOSE n \in 1..(MaxRows + 1) :
    n \notin Ids(rows) /\ \A m \in 1..(n - 1) : m \in Ids(rows)
\* Date.now() of a task made in memory (line 277)
FreshLocalId(list) ==
  -(CHOOSE n \in 1..(MaxRows + 1) :
      -n \notin Ids(list) /\ \A m \in 1..(n - 1) : -m \in Ids(list))

\* `!isGuestMode && currentUser` (lines 266, 301, 321, 411, 433)
RemoteAllowed_UserOnly == currentUser # NULL_USER
RemoteAllowed == ~isGuestMode /\ currentUser # NULL_USER

\* loadTasks / loadBookmarks up to their await (lines 209-215 / 227-233):
\* the select they send, none in guest mode or without a user
loadRows(guest, user, table, after) ==
  IF guest \/ user = NULL_USER
    THEN {}
    ELSE { Request("select", table, 0, FALSE, after) }
loadTasks(guest, user, after) == loadRows(guest, user, "tasks", after)
loadBookmarks(guest, user, after) == loadRows(guest, user, "location_bookmarks", after)

\* the requests go out, if the model has room for them
Send(requests) ==
  /\ Cardinality(inFlight \cup requests) <= MaxRequests
  /\ inFlight' = inFlight \cup requests

\* what a write does to the rows of its table
Applied(rows, r) ==
  CASE r.kind = "insert" ->
         << IF r.table = "tasks" THEN Task(FreshRemoteId(rows), FALSE)
                                 ELSE Bookmark(FreshRemoteId(rows)) >> \o rows
    [] r.kind = "update" ->
         [i \in DOMAIN rows |->
            IF rows[i].id = r.id THEN Task(r.id, r.value) ELSE rows[i]]
    [] r.kind = "delete" -> RemoveId(rows, r.id)
    [] OTHER -> rows

\* session restore at init (lines 615-620) and the listener's SIGNED_IN branch
\* (lines 627-632): the loads are awaited, then tracking starts
AuthSignedIn ==
  /\ ~session
  /\ session' = TRUE
  /\ currentUser' = User
  /\ screen' = "app"
  /\ LET sel == loadTasks(isGuestMode, User, "start")
                  \cup loadBookmarks(isGuestMode, User, "start")
     IN /\ Send(sel)
        /\ appEvent' = AppDone("signedIn", IF sel = {} THEN "none" ELSE "select")
        /\ IF sel = {} THEN StartSyncCall ELSE UNCHANGED << host, watcher >>
  /\ signedOut' = "no"
  /\ UNCHANGED << isGuestMode, tasks, bookmarks, remoteTasks, remoteBookmarks,
                  signingOut, aiService >>

\* the listener's SIGNED_OUT branch (lines 633-637)
AuthSignedOut ==
  /\ session
  /\ session' = FALSE
  /\ currentUser' = NULL_USER
  /\ StopCall
  /\ screen' = "auth"
  /\ signedOut' = "listener"
  /\ appEvent' = AppDone("signedOut", "none")
  /\ UNCHANGED << isGuestMode, tasks, bookmarks, remoteTasks, remoteBookmarks,
                  inFlight, signingOut, aiService >>

\* handleGuestAccess (lines 549-552)
HandleGuestAccess ==
  /\ screen = "auth"
  /\ isGuestMode' = TRUE
  /\ screen' = "app"
  /\ signedOut' = "no"
  /\ appEvent' = AppDone("guestAccess", "none")
  /\ UNCHANGED << session, currentUser, tasks, bookmarks, remoteTasks,
                  remoteBookmarks, inFlight, signingOut, aiService, host, watcher >>

\* handleSignOut up to the promise of signOut() (lines 554-555)
HandleSignOut ==
  /\ screen = "app"
  /\ ~signingOut
  /\ signingOut' = TRUE
  /\ appEvent' = AppDone("signOut", "none")
  /\ UNCHANGED << session, screen, currentUser, isGuestMode, tasks, bookmarks,
                  remoteTasks, remoteBookmarks, inFlight, signedOut, aiService,
                  host, watcher >>

\* the .then of handleSignOut (lines 555-561); signOut() resolves once the
\* session is gone and the listener was told
SignOutThen ==
  /\ signingOut
  /\ ~session
  /\ signingOut' = FALSE
  /\ currentUser' = NULL_USER
  /\ isGuestMode' = FALSE
  /\ tasks' = << >>
  /\ bookmarks' = << >>
  /\ screen' = "auth"
  /\ signedOut' = IF signedOut = "listener" THEN "both" ELSE signedOut
  /\ appEvent' = AppDone("signOutThen", "none")
  /\ UNCHANGED << session, remoteTasks, remoteBookmarks, inFlight, aiService,
                  host, watcher >>

\* addTask with a well-formed input (lines 244-294), up to its first await
AddTask ==
  /\ screen = "app"
  /\ IF RemoteAllowed
       THEN /\ Len(remoteTasks) < MaxRows
            /\ Send({ Request("insert", "tasks", 0, FALSE, "none") })
            /\ tasks' = tasks
            /\ appEvent' = AppDone("addTask", "insert")
       ELSE /\ Len(tasks) < MaxRows
            /\ tasks' = << Task(FreshLocalId(tasks), FALSE) >> \o tasks
            /\ inFlight' = inFlight
            /\ appEvent' = AppDone("addTask", "none")
  /\ UNCHANGED << session, screen, currentUser, isGuestMode, bookmarks,
                  remoteTasks, remoteBookmarks, signingOut, signedOut, aiService,
                  host, watcher >>

\* toggleTaskComplete (lines 296-317), up to its first await
ToggleTaskComplete(taskId) ==
  /\ screen = "app"
  /\ taskId \in Ids(tasks)
  /\ LET task == CHOOSE t \in { tasks[i] : i \in DOMAIN tasks } : t.id = taskId
     IN IF RemoteAllowed
          THEN /\ Send({ Request("update", "tasks", taskId, ~task.completed, "none") })
               /\ tasks' = tasks
               /\ appEvent' = AppDone("toggleTaskComplete", "update")
          ELSE /\ tasks' = [i \in DOMAIN tasks |->
                              IF tasks[i].id = taskId
                                THEN Task(taskId, ~task.completed) ELSE tasks[i]]
               /\ inFlight' = inFlight
               /\ appEvent' = AppDone("toggleTaskComplete", "none")
  /\ UNCHANGED << session, screen, currentUser, isGuestMode, bookmarks,
                  remoteTasks, remoteBookmarks, signingOut, signedOut, aiService,
                  host, watcher >>

\* deleteTask (lines 319-337), up to its first await
DeleteTask(taskId) ==
  /\ screen = "app"
  /\ taskId \in Ids(tasks)
  /\ IF RemoteAllowed
       THEN /\ Send({ Request("delete", "tasks", taskId, FALSE, "none") })
            /\ tasks' = tasks
            /\ appEvent' = AppDone("deleteTask", "delete")
       ELSE /\ tasks' = RemoveId(tasks, taskId)
            /\ inFlight' = inFlight
            /\ appEvent' = AppDone("deleteTask", "none")
  /\ UNCHANGED << session, screen, currentUser, isGuestMode, bookmarks,
                  remoteTasks, remoteBookmarks, signingOut, signedOut, aiService,
                  host, watcher >>

\* addBookmark with a well-formed input (lines 390-429), up to its first await
AddBookmark ==
  /\ screen = "app"
  /\ IF RemoteAllowed
       THEN /\ Len(remoteBookmarks) < MaxRows
            /\ Send({ Request("insert", "location_bookmarks", 0, FALSE, "none") })
            /\ appEvent' = AppDone("addBookmark", "insert")
       ELSE /\ inFlight' = inFlight
            /\ appEvent' = AppDone("addBookmark", "none")
  /\ UNCHANGED << session, screen, currentUser, isGuestMode, tasks, bookmarks,
                  remoteTasks, remoteBookmarks, signingOut, signedOut, aiService,
                  host, watcher >>

\* deleteBookmark (lines 431-446), up to its first await
DeleteBookmark(bookmarkId) ==
  /\ screen = "app"
  /\ bookmarkId \in Ids(bookmarks)
  /\ IF RemoteAllowed
       THEN /\ Send({ Request("delete", "location_bookmarks", bookmarkId, FALSE, "none") })
            /\ appEvent' = AppDone("deleteBookmark", "delete")
       ELSE /\ inFlight' = inFlight
            /\ appEvent' = AppDone("deleteBookmark", "none")
  /\ UNCHANGED << session, screen, currentUser, isGuestMode, tasks, bookmarks,
                  remoteTasks, remoteBookmarks, signingOut, signedOut, aiService,
                  host, watcher >>

\* the store answers request r and the function that awaits it goes on: a
\* load assigns its list (lines 217-219 / 235-237), a write reloads (lines
\* 276, 308, 328, 422, 441), and the sign-in handler, once both of its loads
\* are back, starts tracking (lines 620, 632)
Responds(r, outcome) ==
  /\ r \in inFlight
  /\ LET rest == inFlight \ { r }
         ok == outcome = "ok"
         reload == IF r.kind = "select" \/ ~ok THEN {}
                   ELSE loadRows(isGuestMode, currentUser, r.table, "none")
     IN /\ inFlight' = rest \cup reload
        /\ tasks' = IF ok /\ r.kind = "select" /\ r.table = "tasks"
                      THEN remoteTasks ELSE tasks
        /\ bookmarks' = IF ok /\ r.kind = "select" /\ r.table = "location_bookmarks"
                          THEN remoteBookmarks ELSE bookmarks
        /\ remoteTasks' = IF ok /\ r.table = "tasks"
                            THEN Applied(remoteTasks, r) ELSE remoteTasks
        /\ remoteBookmarks' = IF ok /\ r.table = "location_bookmarks"
                                THEN Applied(remoteBookmarks, r) ELSE remoteBookmarks
        /\ appEvent' = AppDone("response", IF reload = {} THEN "none" ELSE "select")
        /\ IF r.after = "start" /\ \A q \in rest : q.after # "start"
             THEN StartSyncCall
             ELSE UNCHANGED << host, watcher >>
  /\ UNCHANGED << session, screen, currentUser, isGuestMode, signingOut,
                  signedOut, aiService >>

\* ---------------------------------------------------------------- AIService
\* the sample the platform delivers n-th: a walk along a closed path
Itinerary(n) == << n % 7, (3 * n) % 11 >>

\* updateLocationHistory (part_000 lines 102-115); Date.now() is the number of
\* the delivery
updateLocationHistory_Limit101(latitude, longitude) ==
  LET pushed == Append(locationHistory,
                       [lat |-> latitude, lng |-> longitude,
                        timestamp |-> historyClock + 1])
  IN /\ locationHistory' = IF Len(pushed) > HISTORY_LIMIT + 1 THEN Tail(pushed) ELSE pushed
     /\ historyClock' = historyClock + 1

updateLocationHistory(latitude, longitude) ==
  LET pushed == Append(locationHistory,
                       [lat |-> latitude, lng |-> longitude,
                        timestamp |-> historyClock + 1])
  IN /\ locationHistory' = IF Len(pushed) > HISTORY_LIMIT THEN Tail(pushed) ELSE pushed
     /\ historyClock' = historyClock + 1

\* the success callback of the watch that initializeLocationTracking
\* registers when geolocation is present (part_000 lines 88-99)
AIServicePosition(coord) ==
  /\ hasGeolocation
  /\ historyClock < MaxDeliveries
  /\ updateLocationHistory(coord[1], coord[2])
  /\ UNCHANGED << host, watcher, session, screen, currentUser, isGuestMode,
                  tasks, bookmarks, remoteTasks, remoteBookmarks, inFlight,
                  signingOut, signedOut, appEvent >>

ErrorCodes == 1..3
StoreOutcomes == { "ok", "error", "rejected" }

\* start, stop and what the platform and the user do to the watcher
Lifecycle ==
  \/ \E c \in CallIds : StartAsync(c)
  \/ \E c \in CallIds : PermissionQuerySettles(c)
  \/ \E c \in CallIds : StartResumes(c)
  \/ \E c \in CallIds, a \in { "default", "granted", "denied" } :
       NotificationPermissionSettles(c, a)
  \/ StartSync
  \/ \E a \in { "default", "granted", "denied" } : PromptAnswered(a)
  \/ StopLocationTracking
  \/ \E w \in liveWatches, coord \in Coords, ts \in Timestamps :
       PositionCallback(w, coord, ts)

\* the watcher with its proximity checks
Next ==
  \/ Lifecycle
  \/ \E i \in 1..MaxInFlight, o \in StoreOutcomes : StoreResponds(i, o)

Spec == Init /\ [][Next]_vars

\* the watcher with the platform's errors and one-shot requests beside it;
\* the store does not answer
NextPlatform ==
  \/ Lifecycle
  \/ \E w \in liveWatches, code \in ErrorCodes : WatchErrorCallback(w, code)
  \/ GetCurrentLocationPromise
  \/ \E coord \in Coords, ts \in Timestamps : OneShotPosition(coord, ts)
  \/ \E code \in ErrorCodes : OneShotError(code)

SpecPlatform == Init /\ [][NextPlatform]_vars

\* the watcher with its proximity checks, starts after a stop recorded
SpecRestart == InitRestart /\ [][Next]_vars

\* calculateDistance on its own
NextDistance ==
  \/ \E a \in NearPoints, b \in NearPoints : ProbeNear(a, b)
  \/ \E a \in GlobePoints, b \in GlobePoints : ProbeGlobe(a, b)

SpecDistance == Init /\ [][NextDistance]_vars

\* the watcher with its proximity checks on the Westminster walk
SpecScenario == InitScenario /\ [][Next]_vars

\* main.js with the synchronous copy of the geolocation module, on a page
\* served over https where notifications were granted before
InitMain ==
  /\ InitAt("equator")
  /\ variant = "sync"
  /\ secureContext
  /\ notification = "granted"
  /\ restarted = Untracked

NextApp ==
  \/ AuthSignedIn
  \/ AuthSignedOut
  \/ HandleGuestAccess
  \/ HandleSignOut
  \/ SignOutThen
  \/ AddTask
  \/ \E taskId \in (-MaxRows)..MaxRows : ToggleTaskComplete(taskId)
  \/ \E taskId \in (-MaxRows)..MaxRows : DeleteTask(taskId)
  \/ AddBookmark
  \/ \E bookmarkId \in 1..MaxRows : DeleteBookmark(bookmarkId)
  \/ \E r \in inFlight, outcome \in { "ok", "error" } : Responds(r, outcome)

SpecApp == InitMain /\ [][NextApp]_vars

\* AIService on a device with geolocation
InitHistory == InitAt("equator") /\ hasGeolocation /\ restarted = Untracked

NextHistory ==
  \E coord \in { Itinerary(historyClock + 1) } : AIServicePosition(coord)

SpecHistory == InitHistory /\ [][NextHistory]_vars


\* ----------------------------------------------------------------- claims
Metres(m) == 1000 * m
Origin0 == Location(0, 0, 0)

\* C1: no proximity check is started for a sample that is both less than
\* 10 m from lastLocation (the last accepted sample) and less than 60 s newer
\* than it.
C1_SignificanceFilter ==
  [][ Len(checks') > Len(checks) =>
        LET sample == checks'[Len(checks')]
        IN ~ ( /\ lastLocation # NULL_LOCATION
               /\ Distance(lastLocation, sample) < Metres(10)
               /\ sample.timestamp - lastLocation.timestamp < 60000 ) ]_vars

\* a sample with timestamp 1000 was delivered after (0,0,t=0) was accepted and
\* it was filtered: (0,0,t=0) is still the last accepted sample, and the only
\* check ever started is the one for it
C1_Witness ==
  /\ lastLocation = Origin0
  /\ now = 1000
  /\ checks = << Origin0 >>

\* C2: a delivered sample with no prior accepted sample, or more than 10 m
\* from it, or more than 60000 ms newer than it, becomes lastLocation and
\* starts exactly one proximity check, for that sample.
C2_AcceptanceRule ==
  [][ \A w \in liveWatches, coord \in Coords, ts \in Timestamps :
        LET sample == Location(coord[1], coord[2], ts)
        IN ( /\ PositionCallback(w, coord, ts)
             /\ \/ lastLocation = NULL_LOCATION
                \/ Distance(lastLocation, sample) > Metres(10)
                \/ ts - lastLocation.timestamp > 60000 )
           => /\ lastLocation' = sample
              /\ checks' = Append(checks, sample) ]_vars

\* (0,0,t=0) was accepted and the same coordinate 61 s later was accepted too,
\* by the one subscription of the run
C2_Witness ==
  /\ nextWatchId = 2
  /\ lastLocation = Location(0, 0, 61000)
  /\ checks = << Origin0, Location(0, 0, 61000) >>

\* C3: once stopLocationTracking has returned, and until start is called
\* again, no sample reaches the callback: none updates lastLocation or starts
\* a proximity check.
C3_NoSampleAfterStop ==
  [][ stopReturned =>
        /\ now' = now
        /\ lastLocation' = lastLocation
        /\ Len(checks') <= Len(checks) ]_vars

\* the tasks checkNearby is to select for a location
OpenWithin500(location) ==
  { t \in TaskIds : /\ TaskRow(t).completed = FALSE
                    /\ Distance(location, TaskRow(t)) <= Metres(500) }

\* C4: a check whose query succeeds hands to the notifier exactly the tasks
\* that are incomplete and at most 500 m from the check's location.
C4_NearbySelection ==
  [][ ( event'.op = "storeResponse" /\ event'.result = "ok" ) =>
        \E i \in 1..Len(checks) :
          /\ checks' = RemoveAt(checks, i)
          /\ event'.handed = OpenWithin500(checks[i]) ]_vars

\* a check for a probe at (0,0) selected the tasks at 100 m and 499 m (and the
\* one at 11 m), not the one at 501 m and not the completed one at 3 m
C4_Witness ==
  /\ event.op = "storeResponse"
  /\ event.result = "ok"
  /\ event.handed = { 1, 2, 5 }
  /\ Distance(Origin0, TaskRow(2)) > Metres(499)
  /\ Distance(Origin0, TaskRow(3)) \in (Metres(500) + 1)..Metres(502)

\* C5: a failed task query shows no notification, throws nothing, and leaves
\* the subscription, watchId and lastLocation as they are; a sample that
\* arrives next is still put through the filter.
C5_StoreFailureRecovered ==
  [][ /\ ( event'.op = "storeResponse" /\ event'.result # "ok" )
         => /\ event'.thrown = FALSE
            /\ event'.handed = {}
            /\ notifications' = notifications
            /\ << watchId, lastLocation, liveWatches >>' =
                 << watchId, lastLocation, liveWatches >>
      /\ ( event.op = "storeResponse" /\ event.result # "ok" /\ now' # now )
         => \/ << lastLocation, checks >>' = << lastLocation, checks >>
            \/ /\ lastLocation'.timestamp = now'
               /\ checks' = Append(checks, lastLocation') ]_vars

\* a query failed while the watcher's subscription is live
C5_Witness ==
  /\ event.op = "storeResponse"
  /\ event.result = "caught"
  /\ watchId \in liveWatches
  /\ lastLocation # NULL_LOCATION

\* C6: the notifier shows one notification per task handed to it, with the
\* task's text, when notifications are supported and permission is 'granted',
\* and none otherwise.
C6_OneNotificationPerTask ==
  [][ event'.op = "storeResponse" =>
        \A x \in Texts :
          notifications'[x] - notifications[x] =
            IF notification = "granted"
              THEN Cardinality({ t \in event'.handed : TaskRow(t).task = x })
              ELSE 0 ]_vars

\* the first check of a run handed three tasks, two of them with the same
\* text, and three notifications were shown
C6_Witness ==
  /\ event.op = "storeResponse"
  /\ event.handed = { 1, 2, 5 }
  /\ notification = "granted"
  /\ notifications["buy milk"] = 2
  /\ notifications["post letter"] = 1
  /\ notifications["gym"] = 0

\* C7: at most one subscription created by the watcher is live, and watchId
\* identifies it.
C7_SingleSubscription ==
  /\ Cardinality(liveWatches) <= 1
  /\ liveWatches # {} => liveWatches = { watchId }

\* C8: without a location capability start fails with the unsupported error
\* and creates no subscription; watchId and lastLocation stay null.
C8_UnsupportedLeavesStopped ==
  ~hasGeolocation =>
    /\ watchId = NULL_ID
    /\ lastLocation = NULL_LOCATION
    /\ liveWatches = {}
    /\ nextWatchId = 1
    /\ event.op = "startDone" => ( event.result = "unsupported" /\ event.thrown )

\* a start call has failed on a platform without geolocation
C8_Witness ==
  /\ ~hasGeolocation
  /\ event.op = "startDone"
  /\ event.result = "unsupported"

\* C9: when the permission query reports 'denied', start fails with the
\* permission error, watchPosition is not called and the watcher stays Stopped.
C9_PermissionDeniedSurfaces ==
  ( hasGeolocation /\ secureContext /\ permissionState = "denied" ) =>
    /\ nextWatchId = 1
    /\ watchId = NULL_ID
    /\ event.op = "startDone" => event.result = "blocked"

\* what an insecure context must look like
InsecureOutcome ==
  /\ nextWatchId = 1
  /\ watchId = NULL_ID
  /\ lastLocation = NULL_LOCATION
  /\ oneShot.state # "pending"
  /\ event.op = "startDone" => event.result = "insecure"
  /\ event.op = "getCurrentCall" => event.result = "insecure"
  /\ oneShot.state = "rejected" => oneShot.error = "insecure"

\* C10 as stated: on an insecure page start and getCurrentLocationPromise fail
\* with the insecure-context error before any platform request.
C10_InsecureAlways == ~secureContext => InsecureOutcome

\* C10, amended: the same on a platform that has the location capability.
C10_InsecureWithCapability == ( hasGeolocation /\ ~secureContext ) => InsecureOutcome

\* on an insecure page with geolocation, getCurrentLocationPromise was
\* rejected and a start call has just failed, both with the insecure error
C10_Witness ==
  /\ hasGeolocation
  /\ ~secureContext
  /\ oneShot = [state |-> "rejected", error |-> "insecure"]
  /\ event.op = "startDone"
  /\ event.result = "insecure"

\* C11: whatever the platform answers to the request, and on every
\* precondition failure, the promise of getCurrentLocationPromise is settled:
\* resolved with a sample or rejected with an error.
C11_OneShotSettles ==
  /\ oneShot.state \in { "none", "pending", "resolved", "rejected" }
  /\ event.op = "getCurrentCall" /\ event.result # "ok" => oneShot.state = "rejected"
  /\ event.op = "getCurrentError" => oneShot.state = "rejected"

\* C12: stop on a watcher with a stored subscription cancels it and nulls
\* watchId and lastLocation; stop on a stopped watcher changes nothing, cancels
\* nothing and does not throw.
C12_StopClearsIdempotent ==
  [][ event'.op = "stopDone" =>
        /\ event'.thrown = FALSE
        /\ IF watchId # NULL_ID
             THEN /\ liveWatches' = liveWatches \ { watchId }
                  /\ watchId' = NULL_ID
                  /\ lastLocation' = NULL_LOCATION
             ELSE << liveWatches, watchId, lastLocation >>' =
                    << liveWatches, watchId, lastLocation >>
        /\ << nextWatchId, checks, notifications, notification, starts >>' =
             << nextWatchId, checks, notifications, notification, starts >> ]_vars

\* the only subscription of the run had accepted a sample and was stopped
C12_Witness ==
  /\ event.op = "stopDone"
  /\ nextWatchId = 2
  /\ liveWatches = {}
  /\ watchId = NULL_ID
  /\ lastLocation = NULL_LOCATION
  /\ checks = << Origin0 >>

OneShotOps == { "getCurrentCall", "getCurrentResolved", "getCurrentError" }

\* C13: a call of getCurrentLocationPromise and either answer of the platform
\* to it leave watchId, lastLocation and the subscriptions unchanged and
\* start no proximity check, whatever the watcher is doing.
C13_OneShotIndependent ==
  [][ event'.op \in OneShotOps =>
        << watchId, lastLocation, checks, liveWatches, nextWatchId, starts >>' =
          << watchId, lastLocation, checks, liveWatches, nextWatchId, starts >> ]_vars

\* a one-shot request was resolved while the watcher is active with (0,0,t=0)
\* as its last accepted sample and a start call is suspended at an await
C13_Witness ==
  /\ event.op = "getCurrentResolved"
  /\ oneShot.state = "resolved"
  /\ watchId \in liveWatches
  /\ lastLocation = Origin0
  /\ checks = << Origin0 >>
  /\ InFlight # {}

\* C18: an error the platform reports to the watcher's error callback or to
\* the one-shot request is followed by no watchPosition and no
\* getCurrentPosition call of the core's own; a subscription is created only
\* by a start call and a one-shot request only by getCurrentLocationPromise.
C18_NoAutomaticRetry ==
  [][ /\ event'.op \in { "watchError", "getCurrentError" } =>
           /\ << nextWatchId, liveWatches, watchId >>' =
                << nextWatchId, liveWatches, watchId >>
           /\ IF event'.op = "watchError" THEN oneShot' = oneShot
                                          ELSE oneShot'.state # "pending"
      /\ nextWatchId' # nextWatchId => event'.op = "startDone"
      /\ ( oneShot'.state = "pending" /\ oneShot.state # "pending" ) =>
           event'.op = "getCurrentCall" ]_vars

\* the one-shot request timed out while the watcher's subscription is live,
\* and no request is open
C18_Witness ==
  /\ event.op = "getCurrentError"
  /\ oneShot.error = "timeout"
  /\ oneShot.state # "pending"
  /\ watchId \in liveWatches
  /\ nextWatchId = 2

\* C14: nothing about earlier notifications is kept: a check with permission
\* granted shows a notification for every task handed to it, whether or not
\* a notification with that text was shown by an earlier check.
C14_NoDeduplication ==
  [][ ( event'.op = "storeResponse" /\ notification = "granted" ) =>
        \A t \in event'.handed :
          notifications'[TaskRow(t).task] > notifications[TaskRow(t).task] ]_vars

\* the checks of two accepted samples have both completed, each found the
\* task "post letter" nearby, and it was notified twice
C14_Witness ==
  /\ event.op = "storeResponse"
  /\ 2 \in event.handed
  /\ checks = << >>
  /\ nextWatchId = 2
  /\ now = 1000
  /\ notifications["post letter"] = 2

\* C15: stop leaves the checks that wait for the store as they are, and a
\* store response that arrives when the watcher is stopped still selects the
\* open tasks within 500 m of the check's sample and notifies them.
C15_InFlightSurvivesStop ==
  [][ /\ event'.op = "stopDone" => checks' = checks
      /\ ( stopReturned /\ watchId = NULL_ID
            /\ event'.op = "storeResponse" /\ event'.result = "ok" ) =>
           /\ \E i \in 1..Len(checks) :
                /\ checks' = RemoveAt(checks, i)
                /\ event'.handed = OpenWithin500(checks[i])
           /\ notification = "granted" =>
                \A t \in event'.handed :
                  notifications'[TaskRow(t).task] > 0 ]_vars

\* the sample (0,0,t=0) was accepted, then stop ran, then the store answered
\* and the tasks near (0,0) were notified
C15_Witness ==
  /\ event.op = "storeResponse"
  /\ event.handed = { 1, 2, 5 }
  /\ stopReturned
  /\ watchId = NULL_ID
  /\ liveWatches = {}
  /\ nextWatchId = 2
  /\ now = 0
  /\ notifications["post letter"] = 1

\* C16: samples arrive in timestamp order and the callback decides on each
\* at once, whatever checks are waiting: it either leaves lastLocation and the
\* waiting checks alone or accepts the sample and appends a check for it
\* behind them; and a response to one of several waiting checks selects the
\* tasks near that check's own sample and leaves the other checks waiting.
C16_ChecksOverlap ==
  [][ /\ now' >= now
      /\ now' # now =>
           \/ << lastLocation, checks >>' = << lastLocation, checks >>
           \/ /\ lastLocation'.timestamp = now'
              /\ checks' = Append(checks, lastLocation')
      /\ ( Len(checks) > 1 /\ event'.op = "storeResponse" /\ event'.result = "ok" ) =>
           \E i \in 1..Len(checks) :
             /\ checks' = RemoveAt(checks, i)
             /\ event'.handed = OpenWithin500(checks[i]) ]_vars

\* two checks were waiting, for (0,0,t=0) and for a later sample 11 m away;
\* the store answered the later one first, with the tasks near that sample
C16_Witness ==
  /\ event.op = "storeResponse"
  /\ event.handed = { 1, 2, 3, 5 }
  /\ checks = << Origin0 >>
  /\ lastLocation.latitude = 6
  /\ OpenWithin500(Origin0) = { 1, 2, 5 }

SampleA == Location(5150070, -12460, 0)
SampleB == Location(5150070, -12460, 500)

\* C17: on the Westminster walk, with the first subscription of the run
\* current: sample A (t=0) is accepted and starts the only check; its
\* successful query, with notifications granted, hands the one task, 13 m
\* away, and shows exactly one notification with its text; sample B (same
\* coordinate, t=500) after A starts no check and changes nothing, and the
\* number of notifications never exceeds one.
C17_EndToEnd ==
  [][ ( watchId = 1 /\ now' <= 500 ) =>
        /\ ( now = -1 /\ now' = 0 ) =>
             ( lastLocation' = SampleA /\ checks' = << SampleA >> )
        /\ ( now = 0 /\ now' = 500 ) =>
             << lastLocation, checks, notifications >>' =
               << lastLocation, checks, notifications >>
        /\ ( event'.op = "storeResponse" /\ event'.result = "ok"
              /\ notification = "granted" ) =>
             /\ event'.handed = { 6 }
             /\ notifications["return book"] = 0
             /\ notifications'["return book"] = 1
        /\ notifications'["return book"] <= 1
        /\ \A x \in Texts \ { "return book" } : notifications'[x] = 0 ]_vars

\* A was accepted and its check notified the task; B arrived and was filtered:
\* A is still the last accepted sample, no check waits, one notification
C17_Witness ==
  /\ place = "westminster"
  /\ watchId = 1
  /\ notification = "granted"
  /\ now = 500
  /\ lastLocation = SampleA
  /\ checks = << >>
  /\ notifications["return book"] = 1
  /\ Distance(SampleA, TaskRow(6)) \in Metres(12)..Metres(14)

\* C19: for every pair of points a, b: distance(a,b) = distance(b,a),
\* distance(a,a) = 0 and distance(a,b) >= 0 (a NaN result equals nothing
\* and is not >= 0).
C19_DistanceSymmetricZeroNonNegative ==
  /\ measured.ab # NaN /\ measured.ba # NaN /\ measured.aa # NaN
  /\ measured.ab = measured.ba
  /\ measured.aa = 0
  /\ measured.ab >= 0

\* C20: when the SIGNED_OUT handler has run, no subscription is live, and
\* until the next sign-in none becomes live and no proximity check is
\* started, whatever session restores and SIGNED_IN events came before.
C20_SignOutStopsTracking ==
  [][ /\ OnSignedOut => liveWatches' = {}
      /\ ( stopReturned /\ ~OnSignedIn ) =>
           /\ liveWatches' = {}
           /\ Len(checks') <= Len(checks) ]_vars

\* C21: when stop was called while the one asynchronous start call of the run
\* was suspended, and both have completed, the watcher is stopped: no
\* subscription is live and watchId is null.
C21_StartStopRace ==
  ( variant = "async" /\ stopReturned /\ InFlight = {} /\ nextWatchId <= 2 ) =>
    ( liveWatches = {} /\ watchId = NULL_ID )

\* C22: watchId = null implies lastLocation = null.
C22_LastLocationOnlyWhileWatching ==
  watchId = NULL_ID => lastLocation = NULL_LOCATION

\* C23: a delivered sample that is within 10 m of lastLocation and not more
\* than 60 s newer than it changes nothing: lastLocation, the waiting checks
\* and the notifications stay, so the next sample is measured from the last
\* accepted sample again.
C23_RejectedSampleChangesNothing ==
  [][ \A w \in liveWatches, coord \in Coords :
        ( /\ PositionCallback(w, coord, now')
          /\ lastLocation # NULL_LOCATION
          /\ Distance(lastLocation, Location(coord[1], coord[2], now')) <= Metres(10)
          /\ now' - lastLocation.timestamp <= 60000 )
        => << lastLocation, checks, notifications, watchId, liveWatches >>' =
             << lastLocation, checks, notifications, watchId, liveWatches >> ]_vars

\* (6,8,t=0) was accepted and a sample at t=1000 was delivered and rejected
\* (of the three coordinates only those within 10 m of (6,8) are): (6,8,t=0)
\* is still lastLocation; a later sample at (0,0), 11 m from it, is measured
\* from there
C23_Witness ==
  /\ lastLocation = Location(6, 8, 0)
  /\ now = 1000
  /\ checks = << Location(6, 8, 0) >>
  /\ watchId \in liveWatches
  /\ Distance(Location(6, 8, 0), Location(0, 5, 1000)) < Metres(10)
  /\ Distance(Location(0, 5, 1000), Origin0) < Metres(10)
  /\ Distance(Location(6, 8, 0), Origin0) > Metres(10)

\* C25: an error reported to the watcher's error callback leaves watchId,
\* lastLocation, the subscriptions and the waiting checks as they are, and a
\* sample delivered next is still accepted or filtered as usual.
C25_WatchErrorLeavesState ==
  [][ /\ event'.op = "watchError" =>
           << watchId, lastLocation, liveWatches, nextWatchId, checks, now >>' =
             << watchId, lastLocation, liveWatches, nextWatchId, checks, now >>
      /\ ( event.op = "watchError" /\ now' # now ) =>
           \/ << lastLocation, checks >>' = << lastLocation, checks >>
           \/ /\ lastLocation'.timestamp = now'
              /\ checks' = Append(checks, lastLocation') ]_vars

\* the platform reported POSITION_UNAVAILABLE to the active watcher, which
\* keeps its subscription and its last accepted sample
C25_Witness ==
  /\ event.op = "watchError"
  /\ event.result = "positionUnavailable"
  /\ watchId \in liveWatches
  /\ lastLocation = Origin0
  /\ checks = << Origin0 >>

\* C24: the first sample delivered by the subscription of a start that was
\* called after stop returned starts a proximity check for that sample.
C24_FirstSampleAfterRestart ==
  [][ ( restarted > 0 /\ restarted' = 0 /\ now' # now ) =>
        /\ lastLocation'.timestamp = now'
        /\ checks' = Append(checks, lastLocation') ]_vars

\* C26: once a SIGNED_OUT event has been handled and every pending
\* continuation (the .then of signOut(), the answers to requests in flight)
\* has run, tasks and bookmarks are empty and currentUser is null, whether the
\* sign-out came from handleSignOut or from the listener alone.
C26_NoDataSurvivesSignOut ==
  ( signedOut # "no" /\ ~signingOut /\ inFlight = {} )
    => ( tasks = << >> /\ bookmarks = << >> /\ currentUser = NULL_USER )

\* the listener alone handled the sign-out, nothing is pending, and the
\* tasks loaded for the user are still in memory
C26_ListenerOnly ==
  /\ signedOut = "listener" /\ ~signingOut /\ inFlight = {}
  /\ currentUser = NULL_USER
  /\ tasks # << >>

\* handleSignOut signed the user out, its .then and the listener ran, and a
\* load that was in flight has refilled the tasks list since
C26_AfterHandleSignOut ==
  /\ signedOut = "both" /\ ~signingOut /\ inFlight = {}
  /\ currentUser = NULL_USER
  /\ tasks # << >>

\* C27: in guest mode addTask, toggleTaskComplete, deleteTask, addBookmark
\* and deleteBookmark send no insert, update or delete, loadTasks and
\* loadBookmarks send no select, and the remote tables stay as they are; a
\* task change shows in the tasks list alone.
GuestOps == { "addTask", "toggleTaskComplete", "deleteTask", "addBookmark",
              "deleteBookmark", "signedIn" }
C27_GuestNeverWritesRemote ==
  [][ /\ ( isGuestMode /\ appEvent'.op \in GuestOps )
           => /\ appEvent'.request = "none"
              /\ inFlight' = inFlight
              /\ remoteTasks' = remoteTasks
              /\ remoteBookmarks' = remoteBookmarks
              /\ bookmarks' = bookmarks
      \* the reload at the end of a write that was sent before guest mode
      /\ ( isGuestMode /\ appEvent'.op = "response" )
           => /\ appEvent'.request = "none"
              /\ inFlight' \subseteq inFlight ]_vars

\* a guest, with a user signed in beside, has added a task: it is in the
\* list, and the store still holds what it held at the start
C27_Witness ==
  /\ isGuestMode /\ currentUser = User
  /\ appEvent = AppDone("addTask", "none")
  /\ \E i \in DOMAIN tasks : tasks[i].id < 0
  /\ remoteTasks = << Task(1, FALSE) >>
  /\ inFlight = {}

\* C28: locationHistory never holds more than 100 entries, and they are the
\* most recently delivered samples, in the order of delivery.
DeliveredSample(n) ==
  [lat |-> Itinerary(n)[1], lng |-> Itinerary(n)[2], timestamp |-> n]
C28_HistoryBounded ==
  /\ Len(locationHistory) <= HISTORY_LIMIT
  /\ Len(locationHistory) = IF historyClock < HISTORY_LIMIT
                              THEN historyClock ELSE HISTORY_LIMIT
  /\ \A i \in DOMAIN locationHistory :
       locationHistory[i] =
         DeliveredSample(historyClock - Len(locationHistory) + i)

\* the 101st sample has arrived: the history holds samples 2 to 101
C28_Witness ==
  /\ historyClock = HISTORY_LIMIT + 1
  /\ Len(locationHistory) = HISTORY_LIMIT
  /\ locationHistory[1].timestamp = 2
  /\ locationHistory[HISTORY_LIMIT].timestamp = HISTORY_LIMIT + 1

====
